---- MODULE Spec2Model ----
(***************************************************************************)
(* Backend/main.py: the prompt-refinement backend.                         *)
(*                                                                         *)
(* Text is a sequence of tokens.  A token is one character of provider or  *)
(* user text (" ", "\n", "*", a letter), the substitution marker, or one   *)
(* fixed stretch of a template or meta-prompt between two insertions.      *)
(*                                                                         *)
(* Every handler is an `async def` without an await: the event loop runs   *)
(* it from its first line to its response before any other handler runs.   *)
(* The generation provider is the environment: each call it receives ends  *)
(* in one of the outcomes of ProviderOutcomes.                             *)
(*                                                                         *)
(* Spec         the three generation endpoints (generate-prompt,           *)
(*              modify-prompt, chat), one step per provider call           *)
(* SpecAuth     the user store, /api/register and /api/login, requests in  *)
(*              flight                                                     *)
(* SpecRegistry the registry and compiler functions applied to arguments   *)
(* SpecParser   parse_bullet_list applied to texts                         *)
(* SpecSession  one caller's refinement session: a generate-prompt request *)
(*              and the modify-prompt requests built from its results      *)
(***************************************************************************)
EXTENDS Integers, Sequences, FiniteSets, TLC

VARIABLES
  pc,              \* where the running handler stands ("idle" when none runs)
  request,         \* the payload of the running handler's request
  locals,          \* the running handler's local variables
  provider_calls,  \* the model.generate_content calls of the running handler, in order
  response,        \* the HTTP response of the running handler
  fake_user_db,    \* main.py:492, email -> user record
  auth_requests,   \* the register and login requests received, in arrival order
  auth_results,    \* their responses (NoResponse while in flight)
  now,             \* datetime.utcnow(), in minutes
  fn_call,         \* SpecRegistry: the function applied and its arguments
  fn_result,       \* SpecRegistry: what it returned
  client           \* SpecSession: what the caller keeps of the refinement results

vars == <<pc, request, locals, provider_calls, response,
          fake_user_db, auth_requests, auth_results, now, fn_call, fn_result,
          client>>

llm_vars == <<pc, request, locals, provider_calls, response>>
auth_vars == <<fake_user_db, auth_requests, auth_results, now>>
fn_vars == <<fn_call, fn_result>>

----------------------------------------------------------------------------
(* Bounds *)

MaxHistoryLen == 2
MaxInputLen == 2
MaxTextLen == 4
MaxAuthRequests == 3
MaxClock == 1

----------------------------------------------------------------------------
(* Text *)

MARKER == "{{user_input}}"

Whitespace == {" ", "\n"}

RECURSIVE LStrip(_)
LStrip(s) ==
  IF s # <<>> /\ Head(s) \in Whitespace THEN LStrip(Tail(s)) ELSE s

RECURSIVE RStrip(_)
RStrip(s) ==
  IF s # <<>> /\ s[Len(s)] \in Whitespace
    THEN RStrip(SubSeq(s, 1, Len(s) - 1))
    ELSE s

\* str.strip()
Strip(s) == RStrip(LStrip(s))

\* str.startswith(prefix)
StartsWith(s, prefix) ==
  /\ Len(s) >= Len(prefix)
  /\ SubSeq(s, 1, Len(prefix)) = prefix

\* str.split(sep) for a one-token separator: always at least one piece
RECURSIVE SplitFrom(_, _, _)
SplitFrom(s, sep, piece) ==
  IF s = <<>> THEN <<piece>>
  ELSE IF Head(s) = sep
    THEN <<piece>> \o SplitFrom(Tail(s), sep, <<>>)
    ELSE SplitFrom(Tail(s), sep, Append(piece, Head(s)))

Split(s, sep) == SplitFrom(s, sep, <<>>)

\* mutant: str.replace(MARKER, new, 1), only the first occurrence
RECURSIVE ReplaceFirst(_, _)
ReplaceFirst(s, new) ==
  IF s = <<>> THEN <<>>
  ELSE IF Head(s) = MARKER
    THEN new \o Tail(s)
    ELSE <<Head(s)>> \o ReplaceFirst(Tail(s), new)

\* str.replace(MARKER, new): every occurrence, left to right; the inserted
\* text is not scanned again
RECURSIVE Replace(_, _)
Replace(s, new) ==
  IF s = <<>> THEN <<>>
  ELSE IF Head(s) = MARKER
    THEN new \o Replace(Tail(s), new)
    ELSE <<Head(s)>> \o Replace(Tail(s), new)

\* str.count(tok)
RECURSIVE Count(_, _)
Count(s, tok) ==
  IF s = <<>> THEN 0
  ELSE (IF Head(s) = tok THEN 1 ELSE 0) + Count(Tail(s), tok)

----------------------------------------------------------------------------
(* The category registry *)

prompt_categories ==
  <<
    [id |-> "writing", label |-> "Writing & Content Creation",
     template |-> <<"writing_text1", MARKER, "writing_text2", MARKER>>],
    [id |-> "ideation", label |-> "Ideation & Brainstorming",
     template |-> <<"ideation_text1", MARKER>>],
    [id |-> "summarization", label |-> "Summarization & Extraction",
     template |-> <<"summarization_text1", MARKER, "summarization_text2", MARKER>>],
    [id |-> "explanation", label |-> "Explanation & Tutoring",
     template |-> <<"explanation_text1", MARKER, "explanation_text2", MARKER>>],
    [id |-> "reasoning", label |-> "Problem Solving & Reasoning",
     template |-> <<"reasoning_text1", MARKER, "reasoning_text2", MARKER>>],
    [id |-> "coding", label |-> "Code & Development",
     template |-> <<"coding_text1", MARKER>>],
    [id |-> "data_analysis", label |-> "Data & Analysis",
     template |-> <<"data_analysis_text1", MARKER, "data_analysis_text2", MARKER>>],
    [id |-> "language", label |-> "Translation & Language",
     template |-> <<"language_text1", MARKER, "language_text2", MARKER>>],
    [id |-> "roleplay", label |-> "Roleplay & Simulation",
     template |-> <<"roleplay_text1", MARKER>>],
    [id |-> "research", label |-> "Research & Reports",
     template |-> <<"research_text1", MARKER>>],
    [id |-> "productivity", label |-> "Productivity & Planning",
     template |-> <<"productivity_text1", MARKER>>],
    [id |-> "visual_generation", label |-> "Image/Media Generation",
     template |-> <<"visual_generation_text1", MARKER>>],
    [id |-> "expert_domains", label |-> "Legal, Medical, and Expert Domains",
     template |-> <<"expert_domains_text1", MARKER>>],
    [id |-> "meta_prompting", label |-> "Meta-Prompts (Prompt Refinement & Generation)",
     template |-> <<"meta_prompting_text1", MARKER, "meta_prompting_text2", MARKER, "meta_prompting_text3", MARKER, "meta_prompting_text4">>]
  >>

NO_SELECTION_CATEGORY_ID == "please_select"

\* mutant: the default template has lost its placeholder
default_prompt_category_without_marker ==
  [id |-> "meta_prompting", label |-> "Meta-Prompts (Prompt Refinement & Generation)",
   template |-> <<"default_text1", "meta_prompting_text4">>]

default_prompt_category ==
  [id |-> "meta_prompting", label |-> "Meta-Prompts (Prompt Refinement & Generation)",
   template |-> <<"default_text1", MARKER, "meta_prompting_text4">>]

RegisteredIds == {prompt_categories[i].id : i \in 1..Len(prompt_categories)}

\* the loop of get_prompt_category from position i on
RECURSIVE CategoryScan(_, _)
CategoryScan(category_id, i) ==
  IF i > Len(prompt_categories) THEN default_prompt_category
  ELSE IF prompt_categories[i].id = category_id THEN prompt_categories[i]
  ELSE CategoryScan(category_id, i + 1)

\* mutant: an id that matches nothing gets the first registered category
get_prompt_category_first_on_miss(category_id) ==
  IF \E i \in 1..Len(prompt_categories) : prompt_categories[i].id = category_id
    THEN CategoryScan(category_id, 1)
    ELSE prompt_categories[1]

get_prompt_category(category_id) == CategoryScan(category_id, 1)

\* mutant: the user input is trimmed before it is inserted
get_category_prompt_trims_input(category_id, user_input) ==
  LET category_info == get_prompt_category(category_id)
  IN  Replace(category_info.template, Strip(user_input))

get_category_prompt(category_id, user_input) ==
  LET category_info == get_prompt_category(category_id)
  IN  Replace(category_info.template, user_input)

\* mutant: the listing hands out the whole category, template included
get_categories_with_template ==
  [i \in 1..Len(prompt_categories) |-> prompt_categories[i]]

get_categories ==
  [i \in 1..Len(prompt_categories) |->
     [id |-> prompt_categories[i].id, label |-> prompt_categories[i].label]]

----------------------------------------------------------------------------
(* The generation provider *)

\* what the provider can send back as text
ProviderTexts ==
  { <<>>,
    <<" ", "a", "\n">>,
    <<"*", " ", "a", "\n", "*", " ", "b">>,
    <<"*", " ">>,
    <<" ">> }

\* what the provider's exception can say
ProviderErrors == {"quota exceeded", "connection reset"}

\* one model.generate_content call: it raises, it returns a response
\* without usable text (falsy, or no `text` attribute), or it returns text
ProviderOutcomes ==
  {[kind |-> "raise", error |-> e] : e \in ProviderErrors}
    \cup {[kind |-> "no_text"]}
    \cup {[kind |-> "text", text |-> t] : t \in ProviderTexts}

\* `response.text.strip() if response and hasattr(response, "text") else fallback`
ResponseText(outcome, fallback) ==
  IF outcome.kind = "text" THEN Strip(outcome.text) ELSE fallback

ProviderCall(mode, contents, outcome) ==
  [mode |-> mode, contents |-> contents, outcome |-> outcome]

----------------------------------------------------------------------------
(* Helper functions *)

\* mutant: the loop works on the lines as split, without line.strip()
RECURSIVE ParsedItemsUntrimmed(_, _)
ParsedItemsUntrimmed(lines, i) ==
  IF i > Len(lines) THEN <<>>
  ELSE IF StartsWith(lines[i], <<"*", " ">>)
    THEN <<Strip(SubSeq(lines[i], 3, Len(lines[i])))>> \o ParsedItemsUntrimmed(lines, i + 1)
  ELSE IF lines[i] # <<>>
    THEN <<lines[i]>> \o ParsedItemsUntrimmed(lines, i + 1)
  ELSE ParsedItemsUntrimmed(lines, i + 1)

\* the loop of parse_bullet_list over `lines` from position i on
RECURSIVE ParsedItems(_, _)
ParsedItems(lines, i) ==
  IF i > Len(lines) THEN <<>>
  ELSE LET stripped_line == Strip(lines[i])
       IN  IF StartsWith(stripped_line, <<"*", " ">>)
             THEN <<Strip(SubSeq(stripped_line, 3, Len(stripped_line)))>>
                    \o ParsedItems(lines, i + 1)
           ELSE IF stripped_line # <<>>
             THEN <<stripped_line>> \o ParsedItems(lines, i + 1)
           ELSE ParsedItems(lines, i + 1)

\* mutant: parse_bullet_list without the `if not text_content` of line 551
parse_bullet_list_without_empty_check(text_content) ==
  LET lines == Split(Strip(text_content), "\n")
      parsed_items == ParsedItems(lines, 1)
  IN  IF parsed_items # <<>> THEN parsed_items ELSE <<Strip(text_content)>>

parse_bullet_list(text_content) ==
  IF text_content = <<>> THEN <<>>
  ELSE LET lines == Split(Strip(text_content), "\n")
           parsed_items == ParsedItems(lines, 1)
       IN  IF parsed_items # <<>> THEN parsed_items ELSE <<Strip(text_content)>>

\* the f-string of modify_prompt_with_user_input
ModificationPrompt(current, instructions, original_task, original_category_label) ==
  <<"modification_text1">> \o original_task
    \o <<"modification_text2", original_category_label, "modification_text3">>
    \o current
    \o <<"modification_text4">> \o instructions
    \o <<"modification_text5">>

\* the f-strings of get_ai_explanation_and_suggestions
ExplanationPrompt(generated_prompt, original_task, category_label) ==
  <<"explanation_prompt_text1">> \o original_task
    \o <<"explanation_prompt_text2", category_label, "explanation_prompt_text3">>
    \o generated_prompt \o <<"explanation_prompt_text4">>

SuggestionPrompt(generated_prompt, original_task) ==
  <<"suggestion_prompt_text1">> \o original_task
    \o <<"suggestion_prompt_text2">> \o generated_prompt
    \o <<"suggestion_prompt_text3">>

\* mutant: the except clause falls back to the empty string
ModifiedPromptLosesCurrent(current_refined_prompt, outcome) ==
  IF outcome.kind = "raise"
    THEN <<>>
    ELSE ResponseText(outcome, current_refined_prompt)

\* what modify_prompt_with_user_input returns, given how its call ended
ModifiedPrompt(current_refined_prompt, outcome) ==
  IF outcome.kind = "raise"
    THEN current_refined_prompt
    ELSE ResponseText(outcome, current_refined_prompt)

\* mutant: a response without text is replaced by a fallback sentence, as in chat_api
AiAnalysisWithFallbackText(explanation_response, suggestion_response) ==
  LET explanation_raw == ResponseText(explanation_response, <<"No response from AI.">>)
      suggestions_raw == ResponseText(suggestion_response, <<"No response from AI.">>)
  IN  [explanation |-> parse_bullet_list(explanation_raw),
       suggestions |-> parse_bullet_list(suggestions_raw)]

\* what get_ai_explanation_and_suggestions returns once both calls returned
AiAnalysis(explanation_response, suggestion_response) ==
  LET explanation_raw == ResponseText(explanation_response, <<>>)
      suggestions_raw == ResponseText(suggestion_response, <<>>)
  IN  [explanation |-> parse_bullet_list(explanation_raw),
       suggestions |-> parse_bullet_list(suggestions_raw)]

----------------------------------------------------------------------------
(* Responses *)

NoRequest == [endpoint |-> "none"]
NoLocals == [frame |-> "none"]
NoResponse == [status |-> 0]

\* str(e) of what an `except Exception as e` caught: the provider's message,
\* or "<status>: <detail>" for an HTTPException
StatusText(status) ==
  CASE status = 400 -> "400" [] status = 401 -> "401" [] OTHER -> "500"

ExceptionText(e) ==
  IF e.kind = "raise"
    THEN <<e.error>>
    ELSE <<StatusText(e.status), ": ", e.detail>>

\* raise HTTPException(status_code=500, detail=f"{prefix}{str(e)}")
ServerError(prefix, e) ==
  [status |-> 500, detail |-> <<prefix>> \o ExceptionText(e)]

RefinementResponse(optimized_prompt, ai_analysis, task, label, category_id) ==
  [status |-> 200,
   optimized_prompt |-> optimized_prompt,
   explanation |-> ai_analysis.explanation,
   suggestions |-> ai_analysis.suggestions,
   original_task_for_mod |-> task,
   original_category_label_for_mod |-> label,
   current_category_id |-> category_id]

ErrorPrefix(endpoint) ==
  CASE endpoint = "generate-prompt" -> "Failed to generate prompt: "
    [] endpoint = "modify-prompt" -> "Failed to modify prompt: "
    [] endpoint = "chat" -> "Failed to get chat response: "

----------------------------------------------------------------------------
(* Requests *)

CategoryArgs == RegisteredIds \cup {NO_SELECTION_CATEGORY_ID, "unknown_category", ""}

Tasks == { <<>>, <<"a">>, <<"a", MARKER>> }

PromptRequests == [task_description : Tasks, category : CategoryArgs]

ModifyPromptRequests ==
  [current_refined_prompt : { <<>>, <<"p">> },
   user_modification_instructions : { <<"i">> },
   original_task_for_context : Tasks,
   original_category_label_for_context : {"Writing & Content Creation", "some label"},
   current_category_id : {"writing", "unknown_category"}]

ChatMessageParts == { <<>>, <<[text |-> <<"h">>]>>, <<[text |-> <<"h">>], [text |-> <<"k">>]>> }

ChatMessageContents == [role : {"user", "model"}, parts : ChatMessageParts]

RECURSIVE SeqsUpTo(_, _)
SeqsUpTo(S, n) ==
  IF n = 0 THEN { <<>> }
  ELSE LET shorter == SeqsUpTo(S, n - 1)
       IN  shorter \cup {Append(h, x) : h \in {g \in shorter : Len(g) = n - 1}, x \in S}

ChatRequests == [history : SeqsUpTo(ChatMessageContents, MaxHistoryLen)]

----------------------------------------------------------------------------
(* POST /api/generate-prompt *)

\* the arguments of get_ai_explanation_and_suggestions, with what its caller
\* keeps for the response
AnalysisFrame(generated_prompt, original_task, category_label, current_category_id) ==
  [frame |-> "get_ai_explanation_and_suggestions",
   generated_prompt |-> generated_prompt,
   original_task |-> original_task,
   category_label |-> category_label,
   current_category_id |-> current_category_id,
   explanation_response |-> [kind |-> "pending"]]

\* lines 687-691: up to the main generation call
GenerateStart(data) ==
  /\ pc = "idle"
  /\ LET selected_category_id ==
           IF data.category # NO_SELECTION_CATEGORY_ID
             THEN data.category
             ELSE default_prompt_category.id
         category_info == get_prompt_category(selected_category_id)
         prompt_text == get_category_prompt(selected_category_id, data.task_description)
     IN  locals' = [frame |-> "generate_prompt_api",
                    selected_category_id |-> selected_category_id,
                    category_info |-> category_info,
                    prompt_text |-> prompt_text]
  /\ request' = [endpoint |-> "generate-prompt", data |-> data]
  /\ provider_calls' = <<>>
  /\ response' = NoResponse
  /\ pc' = "generate_main"
  /\ UNCHANGED <<auth_vars, fn_vars, client>>

\* mutant: a failed main call is tried once more
GenerateMainCallRetries(outcome) ==
  /\ pc = "generate_main"
  /\ provider_calls' = Append(provider_calls,
                              ProviderCall("text", locals.prompt_text, outcome))
  /\ IF outcome.kind = "raise" /\ provider_calls = <<>>
       THEN UNCHANGED <<pc, locals, response>>
       ELSE IF outcome.kind = "raise"
         THEN /\ response' = ServerError(ErrorPrefix(request.endpoint), outcome)
              /\ pc' = "responded"
              /\ UNCHANGED locals
         ELSE /\ locals' = AnalysisFrame(ResponseText(outcome, <<>>),
                                        request.data.task_description,
                                        locals.category_info.label,
                                        locals.selected_category_id)
              /\ pc' = "analysis_explanation"
              /\ UNCHANGED response
  /\ UNCHANGED <<request, auth_vars, fn_vars, client>>

\* lines 694-695, and 711-714 when the call raises
GenerateMainCall(outcome) ==
  /\ pc = "generate_main"
  /\ provider_calls' = Append(provider_calls,
                              ProviderCall("text", locals.prompt_text, outcome))
  /\ IF outcome.kind = "raise"
       THEN /\ response' = ServerError(ErrorPrefix(request.endpoint), outcome)
            /\ pc' = "responded"
            /\ UNCHANGED locals
       ELSE /\ locals' = AnalysisFrame(ResponseText(outcome, <<>>),
                                      request.data.task_description,
                                      locals.category_info.label,
                                      locals.selected_category_id)
            /\ pc' = "analysis_explanation"
            /\ UNCHANGED response
  /\ UNCHANGED <<request, auth_vars, fn_vars, client>>

----------------------------------------------------------------------------
(* get_ai_explanation_and_suggestions, called by both refinement endpoints *)

\* mutant: a failed explanation call is tried a second time
AnalysisExplanationCallRetries(outcome) ==
  /\ pc = "analysis_explanation"
  /\ provider_calls' =
       Append(provider_calls,
              ProviderCall("text",
                           ExplanationPrompt(locals.generated_prompt, locals.original_task,
                                             locals.category_label),
                           outcome))
  /\ IF outcome.kind = "raise"
       THEN IF Len(provider_calls) = 1
              THEN UNCHANGED <<pc, locals, response>>
              ELSE /\ response' = ServerError(ErrorPrefix(request.endpoint), outcome)
                   /\ pc' = "responded"
                   /\ UNCHANGED locals
       ELSE /\ locals' = [locals EXCEPT !.explanation_response = outcome]
            /\ pc' = "analysis_suggestion"
            /\ UNCHANGED response
  /\ UNCHANGED <<request, auth_vars, fn_vars, client>>

\* line 641, and the caller's except clause when the call raises
AnalysisExplanationCall(outcome) ==
  /\ pc = "analysis_explanation"
  /\ provider_calls' =
       Append(provider_calls,
              ProviderCall("text",
                           ExplanationPrompt(locals.generated_prompt, locals.original_task,
                                             locals.category_label),
                           outcome))
  /\ IF outcome.kind = "raise"
       THEN /\ response' = ServerError(ErrorPrefix(request.endpoint), outcome)
            /\ pc' = "responded"
            /\ UNCHANGED locals
       ELSE /\ locals' = [locals EXCEPT !.explanation_response = outcome]
            /\ pc' = "analysis_suggestion"
            /\ UNCHANGED response
  /\ UNCHANGED <<request, auth_vars, fn_vars, client>>

\* mutant: a failed suggestion call is taken for an empty answer
AnalysisSuggestionCallAbsorbs(outcome) ==
  /\ pc = "analysis_suggestion"
  /\ provider_calls' =
       Append(provider_calls,
              ProviderCall("text",
                           SuggestionPrompt(locals.generated_prompt, locals.original_task),
                           outcome))
  /\ response' =
       RefinementResponse(locals.generated_prompt,
                          AiAnalysis(locals.explanation_response,
                                     IF outcome.kind = "raise"
                                       THEN [kind |-> "no_text"]
                                       ELSE outcome),
                          locals.original_task,
                          locals.category_label,
                          locals.current_category_id)
  /\ pc' = "responded"
  /\ UNCHANGED <<request, locals, auth_vars, fn_vars, client>>

\* lines 642-652, then the caller's response (703-710 or 740-747)
AnalysisSuggestionCall(outcome) ==
  /\ pc = "analysis_suggestion"
  /\ provider_calls' =
       Append(provider_calls,
              ProviderCall("text",
                           SuggestionPrompt(locals.generated_prompt, locals.original_task),
                           outcome))
  /\ response' =
       IF outcome.kind = "raise"
         THEN ServerError(ErrorPrefix(request.endpoint), outcome)
         ELSE RefinementResponse(locals.generated_prompt,
                                 AiAnalysis(locals.explanation_response, outcome),
                                 locals.original_task,
                                 locals.category_label,
                                 locals.current_category_id)
  /\ pc' = "responded"
  /\ UNCHANGED <<request, locals, auth_vars, fn_vars, client>>

----------------------------------------------------------------------------
(* POST /api/modify-prompt *)

\* lines 725-730 and 574-602: up to the modification call
ModifyStart(data) ==
  /\ pc = "idle"
  /\ request' = [endpoint |-> "modify-prompt", data |-> data]
  /\ locals' = [frame |-> "modify_prompt_with_user_input",
                modification_prompt |->
                  ModificationPrompt(data.current_refined_prompt,
                                     data.user_modification_instructions,
                                     data.original_task_for_context,
                                     data.original_category_label_for_context)]
  /\ provider_calls' = <<>>
  /\ response' = NoResponse
  /\ pc' = "modify_main"
  /\ UNCHANGED <<auth_vars, fn_vars, client>>

\* mutant: modify_prompt_with_user_input without its try/except
ModifyMainCallPropagates(outcome) ==
  /\ pc = "modify_main"
  /\ provider_calls' = Append(provider_calls,
                              ProviderCall("text", locals.modification_prompt, outcome))
  /\ IF outcome.kind = "raise"
       THEN /\ response' = ServerError(ErrorPrefix(request.endpoint), outcome)
            /\ pc' = "responded"
            /\ UNCHANGED locals
       ELSE /\ locals' = AnalysisFrame(ResponseText(outcome,
                                                    request.data.current_refined_prompt),
                                       request.data.original_task_for_context,
                                       request.data.original_category_label_for_context,
                                       request.data.current_category_id)
            /\ pc' = "analysis_explanation"
            /\ UNCHANGED response
  /\ UNCHANGED <<request, auth_vars, fn_vars, client>>

\* mutant: the handler passes on the id of the category the registry finds
\* for current_category_id instead of the id it received
ModifyMainCallResolvesCategory(outcome) ==
  /\ pc = "modify_main"
  /\ provider_calls' = Append(provider_calls,
                              ProviderCall("text", locals.modification_prompt, outcome))
  /\ locals' = AnalysisFrame(ModifiedPrompt(request.data.current_refined_prompt, outcome),
                             request.data.original_task_for_context,
                             request.data.original_category_label_for_context,
                             get_prompt_category(request.data.current_category_id).id)
  /\ pc' = "analysis_explanation"
  /\ UNCHANGED <<request, response, auth_vars, fn_vars, client>>

\* lines 603-611, then 733-737 up to the explanation call
ModifyMainCall(outcome) ==
  /\ pc = "modify_main"
  /\ provider_calls' = Append(provider_calls,
                              ProviderCall("text", locals.modification_prompt, outcome))
  /\ locals' = AnalysisFrame(ModifiedPrompt(request.data.current_refined_prompt, outcome),
                             request.data.original_task_for_context,
                             request.data.original_category_label_for_context,
                             request.data.current_category_id)
  /\ pc' = "analysis_explanation"
  /\ UNCHANGED <<request, response, auth_vars, fn_vars, client>>

----------------------------------------------------------------------------
(* POST /api/chat *)

\* mutant: the validation of line 761 lets every history through
HistoryIsNeverEmpty(data) == FALSE

\* line 761
HistoryIsEmpty(data) == data.history = <<>>

\* mutant: only the first part of every message is forwarded
GeminiHistoryFirstPartOnly(history) ==
  [i \in 1..Len(history) |->
     [role |-> history[i].role,
      parts |-> [j \in 1..(IF history[i].parts = <<>> THEN 0 ELSE 1) |->
                   [text |-> history[i].parts[j].text]]]]

\* lines 767-773
GeminiHistory(history) ==
  [i \in 1..Len(history) |->
     [role |-> history[i].role,
      parts |-> [j \in 1..Len(history[i].parts) |-> [text |-> history[i].parts[j].text]]]]

\* lines 759-773: the HTTPException(400) of line 762 is raised inside the
\* try block and HTTPException is an Exception, so line 782 catches it
ChatStart(data) ==
  /\ pc = "idle"
  /\ request' = [endpoint |-> "chat", data |-> data]
  /\ provider_calls' = <<>>
  /\ IF HistoryIsEmpty(data)
       THEN /\ response' = ServerError(ErrorPrefix("chat"),
                                       [kind |-> "http", status |-> 400,
                                        detail |-> "Chat history cannot be empty."])
            /\ locals' = [frame |-> "chat_api", gemini_history |-> <<>>]
            /\ pc' = "responded"
       ELSE /\ response' = NoResponse
            /\ locals' = [frame |-> "chat_api", gemini_history |-> GeminiHistory(data.history)]
            /\ pc' = "chat_main"
  /\ UNCHANGED <<auth_vars, fn_vars, client>>

\* lines 777-785
ChatMainCall(outcome) ==
  /\ pc = "chat_main"
  /\ provider_calls' = Append(provider_calls,
                              ProviderCall("history", locals.gemini_history, outcome))
  /\ response' =
       IF outcome.kind = "raise"
         THEN ServerError(ErrorPrefix(request.endpoint), outcome)
         ELSE [status |-> 200,
               model_response |-> ResponseText(outcome, <<"No response from AI.">>)]
  /\ pc' = "responded"
  /\ UNCHANGED <<request, locals, auth_vars, fn_vars, client>>

\* the response leaves; nothing of the request stays behind
Respond ==
  /\ pc = "responded"
  /\ pc' = "idle"
  /\ request' = NoRequest
  /\ locals' = NoLocals
  /\ provider_calls' = <<>>
  /\ response' = NoResponse
  /\ UNCHANGED <<auth_vars, fn_vars, client>>

----------------------------------------------------------------------------
(* The specification of the generation endpoints *)

NoCall == [fn |-> "none"]
NoSession == [session |-> "none"]

Init ==
  /\ pc = "idle"
  /\ request = NoRequest
  /\ locals = NoLocals
  /\ provider_calls = <<>>
  /\ response = NoResponse
  /\ fake_user_db = <<>>
  /\ auth_requests = <<>>
  /\ auth_results = <<>>
  /\ now = 0
  /\ fn_call = NoCall
  /\ fn_result = NoCall
  /\ client = NoSession

Next ==
  \/ \E data \in PromptRequests : GenerateStart(data)
  \/ \E outcome \in ProviderOutcomes : GenerateMainCall(outcome)
  \/ \E data \in ModifyPromptRequests : ModifyStart(data)
  \/ \E outcome \in ProviderOutcomes : ModifyMainCall(outcome)
  \/ \E outcome \in ProviderOutcomes : AnalysisExplanationCall(outcome)
  \/ \E outcome \in ProviderOutcomes : AnalysisSuggestionCall(outcome)
  \/ \E data \in ChatRequests : ChatStart(data)
  \/ \E outcome \in ProviderOutcomes : ChatMainCall(outcome)
  \/ Respond

Spec == Init /\ [][Next]_vars

----------------------------------------------------------------------------
(* The user store, POST /api/register and POST /api/login *)

Emails == {"a@example.com", "b@example.com"}
Passwords == {"pw1", "pw2"}
Salts == {"salt1", "salt2"}

UserRegisters == [email : Emails, password : Passwords]

\* pwd_context.hash: bcrypt draws a fresh salt for every hash
hash_password(pwd, salt) ==
  [scheme |-> "bcrypt", salt |-> salt, digest |-> <<salt, pwd>>]

\* pwd_context.verify
verify_password(pwd, hashed) == hashed.digest = <<hashed.salt, pwd>>

\* mutant: the handler never sees an existing record
EmailRegisteredNever(email) == FALSE

\* line 789: `user.email in fake_user_db`
EmailRegistered(email) == email \in DOMAIN fake_user_db

\* line 792: `fake_user_db[user.email] = {...}`
StoreUser(db, email, hashed_pw) ==
  [e \in DOMAIN db \cup {email} |->
     IF e = email THEN [email |-> email, password |-> hashed_pw] ELSE db[e]]

\* a register request reaches the server and waits for the event loop
RegisterArrive(user) ==
  /\ Len(auth_requests) < MaxAuthRequests
  /\ auth_requests' = Append(auth_requests, [endpoint |-> "register", user |-> user])
  /\ auth_results' = Append(auth_results, NoResponse)
  /\ UNCHANGED <<fake_user_db, now, llm_vars, fn_vars, client>>

\* mutant: the record is written before the membership test answers
RegisterWritesFirst(i, salt) ==
  /\ i \in 1..Len(auth_requests)
  /\ auth_requests[i].endpoint = "register"
  /\ auth_results[i] = NoResponse
  /\ LET user == auth_requests[i].user
     IN  /\ fake_user_db' = StoreUser(fake_user_db, user.email,
                                      hash_password(user.password, salt))
         /\ auth_results' =
              [auth_results EXCEPT ![i] =
                 IF EmailRegistered(user.email)
                   THEN [status |-> 400, detail |-> "User already exists"]
                   ELSE [status |-> 200, message |-> "Registration successful"]]
  /\ UNCHANGED <<auth_requests, now, llm_vars, fn_vars, client>>

\* lines 788-793: the handler of request i, run by the event loop in one piece
Register(i, salt) ==
  /\ i \in 1..Len(auth_requests)
  /\ auth_requests[i].endpoint = "register"
  /\ auth_results[i] = NoResponse
  /\ LET user == auth_requests[i].user
     IN  IF EmailRegistered(user.email)
           THEN /\ auth_results' =
                     [auth_results EXCEPT ![i] = [status |-> 400,
                                                  detail |-> "User already exists"]]
                /\ UNCHANGED fake_user_db
           ELSE /\ fake_user_db' = StoreUser(fake_user_db, user.email,
                                             hash_password(user.password, salt))
                /\ auth_results' =
                     [auth_results EXCEPT ![i] = [status |-> 200,
                                                  message |-> "Registration successful"]]
  /\ UNCHANGED <<auth_requests, now, llm_vars, fn_vars, client>>

SECRET_KEY == "your-secret-key"
ALGORITHM == "HS256"
ACCESS_TOKEN_EXPIRE_MINUTES == 60

UserLogins == [email : Emails, password : Passwords]

\* the HMAC of the claims under a key
Signature(key, algorithm, claims) == <<algorithm, key, claims>>

\* jwt.encode(claims, key, algorithm)
jwt_encode(claims, key, algorithm) ==
  [header |-> [alg |-> algorithm, typ |-> "JWT"],
   claims |-> claims,
   signature |-> Signature(key, algorithm, claims)]

\* mutant: the expiry is the time of issue, the lifetime is not added
create_token_without_lifetime(data, utcnow) ==
  jwt_encode([sub |-> data.sub, exp |-> utcnow], SECRET_KEY, ALGORITHM)

\* create_token with the default expires_delta, called at time utcnow
create_token(data, utcnow) ==
  LET expire == utcnow + ACCESS_TOKEN_EXPIRE_MINUTES
      to_encode == [sub |-> data.sub, exp |-> expire]
  IN  jwt_encode(to_encode, SECRET_KEY, ALGORITHM)

\* mutant: the password check of line 798 is left out
LoginCredentialsBadOnlyIfUnknown(user) == user.email \notin DOMAIN fake_user_db

\* line 797-798: `not db_user or not verify_password(user.password, db_user["password"])`
LoginCredentialsBad(user) ==
  \/ user.email \notin DOMAIN fake_user_db
  \/ ~verify_password(user.password, fake_user_db[user.email].password)

\* a login request reaches the server and waits for the event loop
LoginArrive(user) ==
  /\ Len(auth_requests) < MaxAuthRequests
  /\ auth_requests' = Append(auth_requests, [endpoint |-> "login", user |-> user])
  /\ auth_results' = Append(auth_results, NoResponse)
  /\ UNCHANGED <<fake_user_db, now, llm_vars, fn_vars, client>>

\* lines 796-801: the handler of request i, run by the event loop in one piece
Login(i) ==
  /\ i \in 1..Len(auth_requests)
  /\ auth_requests[i].endpoint = "login"
  /\ auth_results[i] = NoResponse
  /\ LET user == auth_requests[i].user
     IN  auth_results' =
           [auth_results EXCEPT ![i] =
              IF LoginCredentialsBad(user)
                THEN [status |-> 401, detail |-> "Invalid credentials"]
                ELSE [status |-> 200, token |-> create_token([sub |-> user.email], now)]]
  /\ UNCHANGED <<fake_user_db, auth_requests, now, llm_vars, fn_vars, client>>

\* time passes
Tick ==
  /\ now < MaxClock
  /\ now' = now + 1
  /\ UNCHANGED <<fake_user_db, auth_requests, auth_results, llm_vars, fn_vars, client>>

NextAuth ==
  \/ \E user \in UserRegisters : RegisterArrive(user)
  \/ \E i \in 1..MaxAuthRequests, salt \in Salts : Register(i, salt)
  \/ \E user \in UserLogins : LoginArrive(user)
  \/ \E i \in 1..MaxAuthRequests : Login(i)
  \/ Tick

SpecAuth == Init /\ [][NextAuth]_vars

----------------------------------------------------------------------------
(* The registry and compiler functions, applied to arguments *)

UserInputs == SeqsUpTo({"a", " ", MARKER}, MaxInputLen)

CallGetPromptCategory(category_id) ==
  /\ fn_call' = [fn |-> "get_prompt_category", category_id |-> category_id]
  /\ fn_result' = get_prompt_category(category_id)
  /\ UNCHANGED <<llm_vars, auth_vars, client>>

CallGetCategoryPrompt(category_id, user_input) ==
  /\ fn_call' = [fn |-> "get_category_prompt", category_id |-> category_id,
                 user_input |-> user_input]
  /\ fn_result' = get_category_prompt(category_id, user_input)
  /\ UNCHANGED <<llm_vars, auth_vars, client>>

CallGetCategories ==
  /\ fn_call' = [fn |-> "get_categories"]
  /\ fn_result' = get_categories
  /\ UNCHANGED <<llm_vars, auth_vars, client>>

NextRegistry ==
  \/ \E category_id \in CategoryArgs : CallGetPromptCategory(category_id)
  \/ \E category_id \in CategoryArgs, user_input \in UserInputs :
       CallGetCategoryPrompt(category_id, user_input)
  \/ CallGetCategories

SpecRegistry == Init /\ [][NextRegistry]_vars

----------------------------------------------------------------------------
(* parse_bullet_list, applied to texts *)

BulletTexts == SeqsUpTo({"a", "*", " ", "\n"}, MaxTextLen)

CallParseBulletList(text_content) ==
  /\ fn_call = NoCall
  /\ fn_call' = [fn |-> "parse_bullet_list", text_content |-> text_content]
  /\ fn_result' = parse_bullet_list(text_content)
  /\ UNCHANGED <<llm_vars, auth_vars, client>>

\* the caller has the list; the next call can be made
ReturnParseBulletList ==
  /\ fn_call # NoCall
  /\ fn_call' = NoCall
  /\ fn_result' = NoCall
  /\ UNCHANGED <<llm_vars, auth_vars, client>>

NextParser ==
  \/ \E text_content \in BulletTexts : CallParseBulletList(text_content)
  \/ ReturnParseBulletList

SpecParser == Init /\ [][NextParser]_vars

----------------------------------------------------------------------------
(* One caller's refinement session.  The server keeps nothing between two  *)
(* requests: the caller holds the last refinement result and sends its     *)
(* context fields back with every modify-prompt request (the hidden fields *)
(* of lines 131-134).                                                      *)

Instructions == { <<"i">> }

\* lines 120-122: the fields of a result meant for the next modification
ContextFields(result) ==
  [original_task_for_mod |-> result.original_task_for_mod,
   original_category_label_for_mod |-> result.original_category_label_for_mod,
   current_category_id |-> result.current_category_id]

\* what the caller keeps of a result: the prompt it shows and the context fields
KeptFields(result) ==
  [optimized_prompt |-> result.optimized_prompt,
   original_task_for_mod |-> result.original_task_for_mod,
   original_category_label_for_mod |-> result.original_category_label_for_mod,
   current_category_id |-> result.current_category_id]

\* lines 125-134: the modify-prompt payload built from the result the caller holds
FollowUpRequest(result, instructions) ==
  [current_refined_prompt |-> result.optimized_prompt,
   user_modification_instructions |-> instructions,
   original_task_for_context |-> result.original_task_for_mod,
   original_category_label_for_context |-> result.original_category_label_for_mod,
   current_category_id |-> result.current_category_id]

\* the generate-prompt request that opens the session
SessionGenerate(data) ==
  /\ client = NoSession
  /\ GenerateStart(data)

\* a modify-prompt request of a caller that holds no result of this server
SessionModify(data) ==
  /\ client = NoSession
  /\ ModifyStart(data)

\* a modify-prompt request of the session
ModifyFollowUp(instructions) ==
  /\ client # NoSession
  /\ ModifyStart(FollowUpRequest(client.latest, instructions))

\* the response reaches the caller: a successful generate-prompt result opens
\* the session, a successful modify-prompt result replaces the one held, an
\* error response leaves the caller with what it had
ClientReceives ==
  /\ pc = "responded"
  /\ client' =
       IF response.status = 200 /\ request.endpoint = "generate-prompt"
         THEN [initial |-> ContextFields(response), latest |-> KeptFields(response)]
         ELSE IF response.status = 200 /\ client # NoSession
                THEN [client EXCEPT !.latest = KeptFields(response)]
                ELSE client
  /\ pc' = "idle"
  /\ request' = NoRequest
  /\ locals' = NoLocals
  /\ provider_calls' = <<>>
  /\ response' = NoResponse
  /\ UNCHANGED <<auth_vars, fn_vars>>

NextSession ==
  \/ \E data \in PromptRequests : SessionGenerate(data)
  \/ \E outcome \in ProviderOutcomes : GenerateMainCall(outcome)
  \/ \E data \in ModifyPromptRequests : SessionModify(data)
  \/ \E instructions \in Instructions : ModifyFollowUp(instructions)
  \/ \E outcome \in ProviderOutcomes : ModifyMainCall(outcome)
  \/ \E outcome \in ProviderOutcomes : AnalysisExplanationCall(outcome)
  \/ \E outcome \in ProviderOutcomes : AnalysisSuggestionCall(outcome)
  \/ ClientReceives

SpecSession == Init /\ [][NextSession]_vars

----------------------------------------------------------------------------
(* Claims *)

\* the register requests for `email` that the server has answered
AnsweredRegisters(email) ==
  {i \in 1..Len(auth_requests) :
     /\ auth_requests[i].endpoint = "register"
     /\ auth_requests[i].user.email = email
     /\ auth_results[i] # NoResponse}

\* C1: of the register requests in flight with one email, exactly one is
\* answered "Registration successful"; every other one answered is answered
\* 400 "User already exists"; and the store then holds, under that email, the
\* record with the hash of the successful request's password.
C1_OneRegistrationPerEmail ==
  \A email \in Emails :
    LET answered == AnsweredRegisters(email)
        succeeded == {i \in answered : auth_results[i].status = 200}
    IN  answered # {} =>
          /\ Cardinality(succeeded) = 1
          /\ \A i \in answered \ succeeded :
               auth_results[i] = [status |-> 400, detail |-> "User already exists"]
          /\ email \in DOMAIN fake_user_db
          /\ fake_user_db[email].email = email
          /\ \A i \in succeeded :
               verify_password(auth_requests[i].user.password, fake_user_db[email].password)

\* three requests with one email and differing passwords, all answered
C1_Witness ==
  \E email \in Emails :
    /\ Cardinality(AnsweredRegisters(email)) = 3
    /\ \E i, j \in AnsweredRegisters(email) :
         /\ auth_results[i].status = 200
         /\ auth_results[j].status = 400
         /\ auth_requests[i].user.password # auth_requests[j].user.password

ChatWithEmptyHistory ==
  /\ request.endpoint = "chat"
  /\ request.data.history = <<>>

\* C2: a chat request with an empty history is answered with status 400.
C2_EmptyHistoryIs400 ==
  (ChatWithEmptyHistory /\ pc = "responded") => response.status = 400

\* C3: while a chat request with an empty history is handled, and when it
\* is answered, no provider call has been made.
C3_EmptyHistoryNoProviderCall ==
  ChatWithEmptyHistory => provider_calls = <<>>

C3_Witness ==
  ChatWithEmptyHistory /\ pc = "responded" /\ response # NoResponse

ModificationCallRaised ==
  /\ request.endpoint = "modify-prompt"
  /\ Len(provider_calls) >= 1
  /\ provider_calls[1].outcome.kind = "raise"

\* C4: when the generation call of modify_prompt_with_user_input raises, the
\* function returns its `current` argument and raises nothing: the handler
\* goes on to the analysis with that prompt and no error response is made
\* at that point.
C4_ModifyFailureReturnsCurrent ==
  ModificationCallRaised =>
    /\ locals.frame = "get_ai_explanation_and_suggestions"
    /\ locals.generated_prompt = request.data.current_refined_prompt
    /\ Len(provider_calls) = 1 => (pc = "analysis_explanation" /\ response = NoResponse)

C4_Witness ==
  /\ ModificationCallRaised
  /\ Len(provider_calls) = 1
  /\ request.data.current_refined_prompt # <<>>

AnalysisCallRaised ==
  \E i \in 2..Len(provider_calls) : provider_calls[i].outcome.kind = "raise"

\* C5 as claimed: whenever the modification call fails, the response is a
\* success whose optimized_prompt is the request's current_refined_prompt.
C5_Original ==
  (ModificationCallRaised /\ pc = "responded") =>
    /\ response.status = 200
    /\ response.optimized_prompt = request.data.current_refined_prompt

\* C5 as amended: when the modification call fails, the request goes on to
\* the analysis of the unchanged prompt; the response is a success whose
\* optimized_prompt is the request's current_refined_prompt when both
\* analysis calls return, and the 500 error when one of them raises.
C5_ModifyFailureAbsorbedUnlessAnalysisFails ==
  (ModificationCallRaised /\ pc = "responded") =>
    IF AnalysisCallRaised
      THEN response.status = 500
      ELSE /\ response.status = 200
           /\ response.optimized_prompt = request.data.current_refined_prompt
           /\ Len(provider_calls) = 3

C5_Witness ==
  /\ ModificationCallRaised
  /\ pc = "responded"
  /\ ~AnalysisCallRaised
  /\ response.status = 200
  /\ request.data.current_refined_prompt # <<>>

RefinementResultFields ==
  {"optimized_prompt", "explanation", "suggestions", "original_task_for_mod",
   "original_category_label_for_mod", "current_category_id"}

\* C6: when a provider call of a generate-prompt request raises, the
\* response is the 500 error and carries no field of a RefinementResult.
C6_GenerateFailureNoPartialResult ==
  ( /\ request.endpoint = "generate-prompt"
    /\ pc = "responded"
    /\ \E i \in 1..Len(provider_calls) : provider_calls[i].outcome.kind = "raise" )
  => /\ response.status = 500
     /\ DOMAIN response \cap RefinementResultFields = {}

\* the main call returned text; the suggestion call raised
C6_Witness ==
  /\ request.endpoint = "generate-prompt"
  /\ pc = "responded"
  /\ Len(provider_calls) = 3
  /\ provider_calls[1].outcome.kind = "text"
  /\ provider_calls[1].outcome.text # <<>>
  /\ provider_calls[3].outcome.kind = "raise"
  /\ response.status = 500

SuccessfulGenerateOfRegistered ==
  /\ request.endpoint = "generate-prompt"
  /\ request.data.category \in RegisteredIds
  /\ pc = "responded"
  /\ response.status = 200

\* C7: a successful generate-prompt request for a registered category c and
\* task t has made exactly three provider calls: the compiled prompt of
\* (c, t), then the explanation prompt and the suggestion prompt, both
\* holding the stripped text the first call returned; and it answers
\* current_category_id = c.  Before the answer there are never more than
\* three calls.
C7_ThreeCallsInOrder ==
  /\ request.endpoint = "generate-prompt" => Len(provider_calls) <= 3
  /\ SuccessfulGenerateOfRegistered =>
       LET c == request.data.category
           t == request.data.task_description
           main_text == IF provider_calls[1].outcome.kind = "text"
                          THEN Strip(provider_calls[1].outcome.text)
                          ELSE <<>>
           c_entry == CHOOSE e \in {prompt_categories[i] : i \in 1..Len(prompt_categories)} :
                        e.id = c
       IN  /\ Len(provider_calls) = 3
           /\ \A i \in 1..3 : provider_calls[i].mode = "text"
           /\ provider_calls[1].contents = Replace(c_entry.template, t)
           /\ provider_calls[2].contents =
                <<"explanation_prompt_text1">> \o t
                  \o <<"explanation_prompt_text2", c_entry.label, "explanation_prompt_text3">>
                  \o main_text \o <<"explanation_prompt_text4">>
           /\ provider_calls[3].contents =
                <<"suggestion_prompt_text1">> \o t \o <<"suggestion_prompt_text2">>
                  \o main_text \o <<"suggestion_prompt_text3">>
           /\ response.current_category_id = c

C7_Witness ==
  /\ SuccessfulGenerateOfRegistered
  /\ request.data.category = "writing"
  /\ request.data.task_description = <<"a">>
  /\ provider_calls[1].outcome.kind = "text"
  /\ provider_calls[1].outcome.text = <<" ", "a", "\n">>

LookupOfUnregistered ==
  /\ fn_call.fn = "get_prompt_category"
  /\ fn_call.category_id \notin RegisteredIds

\* C8: get_prompt_category of the "please_select" sentinel or of an
\* unregistered id returns the same category (id, label and template) as
\* get_prompt_category of the default category's id.
C8_FallbackEqualsLookupOfDefaultId ==
  LookupOfUnregistered => fn_result = get_prompt_category(default_prompt_category.id)

\* C9: get_prompt_category returns a category for every id: one with the
\* requested id when the id is registered, the default category otherwise.
C9_LookupTotal ==
  fn_call.fn = "get_prompt_category" =>
    /\ DOMAIN fn_result = {"id", "label", "template"}
    /\ fn_call.category_id \in RegisteredIds => fn_result.id = fn_call.category_id
    /\ fn_call.category_id \notin RegisteredIds =>
         fn_result = [id |-> "meta_prompting",
                      label |-> "Meta-Prompts (Prompt Refinement & Generation)",
                      template |-> <<"default_text1", MARKER, "meta_prompting_text4">>]

C9_Witness ==
  /\ LookupOfUnregistered
  /\ fn_call.category_id = "unknown_category"
  /\ fn_result.id = "meta_prompting"

\* C10 as claimed: the template of the category returned by lookup holds
\* the substitution marker exactly once.
C10_Original ==
  fn_call.fn = "get_prompt_category" => Count(fn_result.template, MARKER) = 1

\* C10 as amended: the template of the category returned by lookup holds
\* the substitution marker at least once (one to three times); the default
\* category's template holds it exactly once.
C10_MarkerAtLeastOnce ==
  fn_call.fn = "get_prompt_category" =>
    /\ Count(fn_result.template, MARKER) \in 1..3
    /\ fn_call.category_id \notin RegisteredIds => Count(fn_result.template, MARKER) = 1

C10_Witness ==
  /\ fn_call.fn = "get_prompt_category"
  /\ fn_call.category_id = "meta_prompting"
  /\ Count(fn_result.template, MARKER) = 3


\* `sub` occurs in `s` as a contiguous stretch
Contains(s, sub) ==
  \E k \in 0..(Len(s) - Len(sub)) : SubSeq(s, k + 1, k + Len(sub)) = sub

\* the pieces of a sequence of texts, joined
RECURSIVE Flatten(_)
Flatten(pieces) ==
  IF pieces = <<>> THEN <<>> ELSE Head(pieces) \o Flatten(Tail(pieces))

\* the template that get_category_prompt(category_id, _) fills: the one of
\* the registry entry with that id, the default category's when there is none
TemplateOf(category_id) ==
  LET entries == {prompt_categories[i] : i \in 1..Len(prompt_categories)}
  IN  IF \E e \in entries : e.id = category_id
        THEN (CHOOSE e \in entries : e.id = category_id).template
        ELSE default_prompt_category.template

\* C11 as claimed: the output of get_category_prompt(id, input) contains the
\* input verbatim and contains no substitution marker, for every input.
C11_Original ==
  fn_call.fn = "get_category_prompt" =>
    /\ Contains(fn_result, fn_call.user_input)
    /\ Count(fn_result, MARKER) = 0

\* C11 as amended: the output of get_category_prompt(id, input) contains the
\* input verbatim; it contains no substitution marker when the input
\* contains none, and contains the marker when the input does.
C11_InputVerbatimMarkerOnlyFromInput ==
  fn_call.fn = "get_category_prompt" =>
    /\ Contains(fn_result, fn_call.user_input)
    /\ Count(fn_result, MARKER) = 0 <=> Count(fn_call.user_input, MARKER) = 0

C11_Witness ==
  /\ fn_call.fn = "get_category_prompt"
  /\ fn_call.category_id = "writing"
  /\ fn_call.user_input = <<" ", "a">>
  /\ Count(fn_result, MARKER) = 0

\* C12 as claimed: the compiled prompt is the template with the user input
\* inserted exactly once.
C12_Original ==
  fn_call.fn = "get_category_prompt" =>
    Len(fn_result) = Len(TemplateOf(fn_call.category_id)) - 1 + Len(fn_call.user_input)

\* C12 as amended: the compiled prompt is the template with every
\* occurrence of the placeholder replaced by the user input, so the input is
\* inserted once per occurrence (one to three times); the inserted text is
\* not scanned again, so a marker inside the input stays in the output.
C12_EveryPlaceholderReplacedOnce ==
  fn_call.fn = "get_category_prompt" =>
    LET tpl == TemplateOf(fn_call.category_id)
        input == fn_call.user_input
        k == Count(tpl, MARKER)
    IN  /\ k \in 1..3
        /\ fn_result = Flatten([i \in 1..Len(tpl) |->
                                  IF tpl[i] = MARKER THEN input ELSE <<tpl[i]>>])
        /\ Len(fn_result) = Len(tpl) - k + k * Len(input)
        /\ Count(fn_result, MARKER) = k * Count(input, MARKER)

\* a template with two placeholders, filled with an input that holds a marker
C12_Witness ==
  /\ fn_call.fn = "get_category_prompt"
  /\ fn_call.category_id = "writing"
  /\ fn_call.user_input = <<"a", MARKER>>
  /\ Count(fn_result, MARKER) = 2


\* the lines of a text that are not blank once trimmed, in order
NonBlankLines(text) ==
  LET NonBlank(line) == Strip(line) # <<>>
  IN  SelectSeq(Split(text, "\n"), NonBlank)

\* C13 as claimed: parse_bullet_list returns, in line order, one item per
\* line that is non-empty after trimming: the trimmed line without its
\* leading "* " when it starts with "* ", the trimmed line otherwise; blank
\* lines give no item.
C13_Original ==
  fn_call.fn = "parse_bullet_list" =>
    LET kept == NonBlankLines(fn_call.text_content)
        Item(line) == LET trimmed == Strip(line)
                      IN  IF StartsWith(trimmed, <<"*", " ">>)
                            THEN SubSeq(trimmed, 3, Len(trimmed))
                            ELSE trimmed
    IN  fn_result = [i \in 1..Len(kept) |-> Item(kept[i])]

\* C13 as amended: parse_bullet_list returns, in line order, one item per
\* line that is non-empty after trimming: when the trimmed line starts with
\* "* ", the rest of it after the marker, trimmed again; the trimmed line
\* otherwise.  Blank lines give no item, except that a non-empty text of
\* whitespace only gives the single item "" (the empty text gives no item).
C13_OneTrimmedItemPerLine ==
  fn_call.fn = "parse_bullet_list" =>
    LET text == fn_call.text_content
        kept == NonBlankLines(text)
        Item(line) == LET trimmed == Strip(line)
                      IN  IF StartsWith(trimmed, <<"*", " ">>)
                            THEN Strip(SubSeq(trimmed, 3, Len(trimmed)))
                            ELSE trimmed
    IN  fn_result = IF text # <<>> /\ kept = <<>>
                      THEN << <<>> >>
                      ELSE [i \in 1..Len(kept) |-> Item(kept[i])]

\* "*  a": the rest after the marker starts with a space, which is trimmed
C13_Witness ==
  /\ fn_call.fn = "parse_bullet_list"
  /\ fn_call.text_content = <<"*", " ", " ", "a">>
  /\ fn_result = << <<"a">> >>

\* C14: parse_bullet_list returns the empty sequence for the empty text and
\* a non-empty sequence for every text that is non-empty once trimmed; when
\* no line gives an item although the trimmed text is non-empty, the result
\* is the single item holding the trimmed text.
C14_EmptyIffNoText ==
  fn_call.fn = "parse_bullet_list" =>
    LET text == fn_call.text_content
    IN  /\ text = <<>> => fn_result = <<>>
        /\ Strip(text) # <<>> => fn_result # <<>>
        /\ (NonBlankLines(text) = <<>> /\ Strip(text) # <<>>) => fn_result = <<Strip(text)>>

C14_Witness ==
  /\ fn_call.fn = "parse_bullet_list"
  /\ fn_call.text_content = <<" ", "a", "\n">>
  /\ fn_result = << <<"a">> >>


\* request i is answered in this step
AnsweredNow(i, endpoint) ==
  /\ auth_requests[i].endpoint = endpoint
  /\ auth_results[i] = NoResponse
  /\ auth_results'[i] # NoResponse

\* a register request with exactly these credentials has succeeded
RegisteredWith(user) ==
  \E j \in 1..Len(auth_requests) :
    /\ auth_requests[j].endpoint = "register"
    /\ auth_requests[j].user = user
    /\ auth_results[j].status = 200

\* jwt.decode(token, key): the claims when the signature is the key's
TokenClaims(token, key) ==
  IF token.signature = <<token.header.alg, key, token.claims>>
    THEN token.claims
    ELSE [sub |-> "invalid", exp |-> -1]

\* C15: once register(e, p) has succeeded, whatever requests were handled
\* since, a login(e, p) that is answered gets a token that decodes, under
\* the server's key, to the subject e and to the expiry of the time of the
\* answer plus 60 minutes.
C15_LoginAfterRegisterGivesToken ==
  [][ \A i \in 1..Len(auth_requests) :
        (AnsweredNow(i, "login") /\ RegisteredWith(auth_requests[i].user)) =>
          /\ auth_results'[i].status = 200
          /\ DOMAIN auth_results'[i] = {"status", "token"}
          /\ TokenClaims(auth_results'[i].token, "your-secret-key")
               = [sub |-> auth_requests[i].user.email, exp |-> now + 60] ]_vars

\* a token issued at minute 1, after a refused second registration of the
\* same email
C15_Witness ==
  \E i, k \in 1..Len(auth_requests) :
    /\ auth_requests[i].endpoint = "login"
    /\ auth_results[i].status = 200
    /\ auth_results[i].token.claims.exp = 61
    /\ RegisteredWith(auth_requests[i].user)
    /\ auth_requests[k].endpoint = "register"
    /\ auth_requests[k].user.email = auth_requests[i].user.email
    /\ auth_results[k].status = 400
    /\ k < i

\* C16: a login(e, p) that is answered while no registration of e with the
\* password p has succeeded (e is not registered, or was registered with
\* another password) gets 401 "Invalid credentials" and no token.
C16_BadCredentialsNoToken ==
  [][ \A i \in 1..Len(auth_requests) :
        (AnsweredNow(i, "login") /\ ~RegisteredWith(auth_requests[i].user)) =>
          auth_results'[i] = [status |-> 401, detail |-> "Invalid credentials"] ]_vars

\* a refused login with the wrong password for a registered email, and a
\* refused login for an email that is not registered
C16_Witness ==
  \E i, j \in 1..Len(auth_requests) :
    /\ auth_requests[i].endpoint = "login"
    /\ auth_results[i].status = 401
    /\ auth_requests[i].user.email \in DOMAIN fake_user_db
    /\ auth_requests[j].endpoint = "login"
    /\ auth_results[j].status = 401
    /\ auth_requests[j].user.email \notin DOMAIN fake_user_db

\* C17: a register request for an email that is in the store gets 400 "User
\* already exists" and leaves the store as it is; the record of an email
\* always verifies the password of its successful registration and no other.
C17_DuplicateRegisterChangesNothing ==
  /\ [][ \A i \in 1..Len(auth_requests) :
           (AnsweredNow(i, "register")
              /\ auth_requests[i].user.email \in DOMAIN fake_user_db) =>
             /\ auth_results'[i] = [status |-> 400, detail |-> "User already exists"]
             /\ fake_user_db' = fake_user_db ]_vars
  /\ [](\A j \in 1..Len(auth_requests) :
          (auth_requests[j].endpoint = "register" /\ auth_results[j].status = 200) =>
            LET user == auth_requests[j].user
            IN  /\ user.email \in DOMAIN fake_user_db
                /\ \A p \in Passwords :
                     (fake_user_db[user.email].password.digest
                        = <<fake_user_db[user.email].password.salt, p>>)
                       <=> p = user.password)

\* a second registration of an email, with another password, was refused
C17_Witness ==
  \E i, j \in 1..Len(auth_requests) :
    /\ auth_requests[i].endpoint = "register"
    /\ auth_requests[j].endpoint = "register"
    /\ auth_requests[i].user.email = auth_requests[j].user.email
    /\ auth_requests[i].user.password # auth_requests[j].user.password
    /\ auth_results[i].status = 200
    /\ auth_results[j].status = 400


\* C18: the 500 response of generate-prompt, modify-prompt and chat does
\* not depend on the internal failure: it holds nothing of the text of the
\* exception, so two runs of a request that fail with different messages
\* get the same response.
C18_ErrorResponseHidesFailure ==
  (pc = "responded" /\ response.status = 500) =>
    \A e \in ProviderErrors : ~Contains(response.detail, <<e>>)

\* C19: GET /api/categories returns one {id, label} entry per registered
\* category, in registry order, with pairwise distinct ids and no template,
\* and returns the same list whenever it is called.
C19_CategoriesListing ==
  fn_call.fn = "get_categories" =>
    LET ids == <<"writing", "ideation", "summarization", "explanation", "reasoning",
                 "coding", "data_analysis", "language", "roleplay", "research",
                 "productivity", "visual_generation", "expert_domains", "meta_prompting">>
    IN  /\ Len(fn_result) = Len(prompt_categories)
        /\ Len(fn_result) = Len(ids)
        /\ \A i \in 1..Len(fn_result) :
             /\ DOMAIN fn_result[i] = {"id", "label"}
             /\ fn_result[i].id = ids[i]
             /\ fn_result[i].id = prompt_categories[i].id
             /\ fn_result[i].label = prompt_categories[i].label
        /\ \A i, j \in 1..Len(fn_result) : fn_result[i].id = fn_result[j].id => i = j

C19_Witness ==
  /\ fn_call.fn = "get_categories"
  /\ Len(fn_result) = 14
  /\ fn_result[1] = [id |-> "writing", label |-> "Writing & Content Creation"]

ChatWithHistory ==
  /\ request.endpoint = "chat"
  /\ request.data.history # <<>>

\* C20: a chat request with a non-empty history makes no provider call
\* before its one call and exactly one by the time it is answered; the
\* argument of that call has the turns of the request's history in their
\* order, each with its role and with its parts' texts in their order, and
\* nothing else.
C20_ChatForwardsHistoryOnce ==
  ChatWithHistory =>
    /\ pc = "chat_main" => provider_calls = <<>>
    /\ pc = "responded" =>
         /\ Len(provider_calls) = 1
         /\ provider_calls[1].mode = "history"
         /\ LET history == request.data.history
                sent == provider_calls[1].contents
            IN  /\ Len(sent) = Len(history)
                /\ \A i \in 1..Len(history) :
                     /\ DOMAIN sent[i] = {"role", "parts"}
                     /\ sent[i].role = history[i].role
                     /\ Len(sent[i].parts) = Len(history[i].parts)
                     /\ \A j \in 1..Len(history[i].parts) :
                          sent[i].parts[j] = [text |-> history[i].parts[j].text]

\* two turns, the second with two parts, forwarded and answered
C20_Witness ==
  /\ ChatWithHistory
  /\ pc = "responded"
  /\ Len(request.data.history) = 2
  /\ request.data.history[1].role = "user"
  /\ request.data.history[2].role = "model"
  /\ Len(request.data.history[2].parts) = 2
  /\ response.status = 200

\* a modify-prompt request has been answered with a refinement result
SuccessfulModify ==
  /\ request.endpoint = "modify-prompt"
  /\ pc = "responded"
  /\ response.status = 200

\* C21: a successful modify-prompt response returns the three context fields
\* of its request unchanged; so in a session of one generate-prompt request
\* followed by modify-prompt requests built from the result held, the context
\* fields of the result held are always those of the generate-prompt result.
C21_ModifyKeepsContext ==
  /\ SuccessfulModify =>
       /\ response.original_task_for_mod = request.data.original_task_for_context
       /\ response.original_category_label_for_mod =
            request.data.original_category_label_for_context
       /\ response.current_category_id = request.data.current_category_id
  /\ client # NoSession => ContextFields(client.latest) = client.initial
  /\ (SuccessfulModify /\ client # NoSession) => ContextFields(response) = client.initial

\* a follow-up of a session is answered with a prompt other than the one held
C21_Witness ==
  /\ SuccessfulModify
  /\ client # NoSession
  /\ response.optimized_prompt # client.latest.optimized_prompt
  /\ request.data.current_category_id \notin RegisteredIds

\* the call returned, with no text in it or with nothing but whitespace
NoUsableText(outcome) ==
  \/ outcome.kind = "no_text"
  \/ outcome.kind = "text" /\ \A i \in 1..Len(outcome.text) : outcome.text[i] \in Whitespace

\* a refinement request is answered after it reached the analysis
AnsweredAfterAnalysis ==
  /\ request.endpoint \in {"generate-prompt", "modify-prompt"}
  /\ pc = "responded"
  /\ Len(provider_calls) >= 2

\* C22 as claimed: when the explanation call or the suggestion call returns
\* no usable text, the request succeeds and the corresponding list is empty.
C22_Original ==
  AnsweredAfterAnalysis =>
    /\ NoUsableText(provider_calls[2].outcome) =>
         response.status = 200 /\ response.explanation = <<>>
    /\ (Len(provider_calls) = 3 /\ NoUsableText(provider_calls[3].outcome)) =>
         response.status = 200 /\ response.suggestions = <<>>

\* C22 amended: an analysis call that returns no usable text fails nothing;
\* the request fails exactly when an analysis call raises, and in a success
\* the list of every call without usable text is empty.
C22_NoUsableTextGivesEmptyList ==
  AnsweredAfterAnalysis =>
    /\ response.status = 200 <=>
         (Len(provider_calls) = 3 /\ provider_calls[3].outcome.kind # "raise")
    /\ response.status # 200 =>
         provider_calls[Len(provider_calls)].outcome.kind = "raise"
    /\ response.status = 200 =>
         /\ NoUsableText(provider_calls[2].outcome) => response.explanation = <<>>
         /\ NoUsableText(provider_calls[3].outcome) => response.suggestions = <<>>

\* a success whose explanation call returned whitespace and whose suggestion
\* call returned a response without text
C22_Witness ==
  /\ AnsweredAfterAnalysis
  /\ response.status = 200
  /\ provider_calls[2].outcome = [kind |-> "text", text |-> <<" ">>]
  /\ provider_calls[3].outcome.kind = "no_text"
  /\ response.explanation = <<>>
  /\ response.suggestions = <<>>

\* the text a modify-prompt request goes on with after its first call: the
\* trimmed text of the answer, or the request's prompt when there is none
TextAfterModification ==
  IF provider_calls[1].outcome.kind = "text"
    THEN Strip(provider_calls[1].outcome.text)
    ELSE request.data.current_refined_prompt

\* C23: a modify-prompt request makes one modification call, then at most
\* one explanation call, then at most one suggestion call, and none twice;
\* the two analysis prompts embed the text that a success returns as
\* optimized_prompt: the modified text, or the request's prompt when the
\* modification call gave none.
C23_ModifyCallsOnceInOrder ==
  request.endpoint = "modify-prompt" =>
    /\ Len(provider_calls) <= 3
    /\ pc # "modify_main" => Len(provider_calls) >= 1
    /\ Len(provider_calls) >= 1 =>
         provider_calls[1].contents =
           ModificationPrompt(request.data.current_refined_prompt,
                              request.data.user_modification_instructions,
                              request.data.original_task_for_context,
                              request.data.original_category_label_for_context)
    /\ Len(provider_calls) >= 2 =>
         provider_calls[2].contents =
           ExplanationPrompt(TextAfterModification,
                             request.data.original_task_for_context,
                             request.data.original_category_label_for_context)
    /\ Len(provider_calls) = 3 =>
         provider_calls[3].contents =
           SuggestionPrompt(TextAfterModification, request.data.original_task_for_context)
    /\ \A i, j \in 1..Len(provider_calls) :
         i # j => provider_calls[i].contents # provider_calls[j].contents
    /\ (pc = "responded" /\ response.status = 200) =>
         /\ Len(provider_calls) = 3
         /\ response.optimized_prompt = TextAfterModification

\* a success that returns a modified text, after three calls
C23_Witness ==
  /\ SuccessfulModify
  /\ Len(provider_calls) = 3
  /\ provider_calls[1].outcome.kind = "text"
  /\ response.optimized_prompt # request.data.current_refined_prompt
  /\ response.optimized_prompt # <<>>

\* C24: for a non-empty current prompt, modify_prompt_with_user_input
\* returns a non-empty text, and returns the current prompt itself whenever
\* the provider call raised, returned no text, or returned only whitespace.
C24_ModifyNeverLosesPrompt ==
  ( /\ request.endpoint = "modify-prompt"
    /\ pc = "analysis_explanation"
    /\ request.data.current_refined_prompt # <<>> ) =>
      /\ locals.generated_prompt # <<>>
      /\ ( \/ provider_calls[1].outcome.kind = "raise"
           \/ NoUsableText(provider_calls[1].outcome) ) =>
           locals.generated_prompt = request.data.current_refined_prompt

\* the categories the server defines: the registry and the default category
DefinedCategories ==
  {prompt_categories[i] : i \in 1..Len(prompt_categories)} \cup {default_prompt_category}

\* C25: a successful generate-prompt response returns as current_category_id
\* the id of the category whose template was compiled and whose label it
\* returns, and that id is registered, whatever category the request names.
C25_ReturnedIdIsCompiledCategory ==
  ( /\ request.endpoint = "generate-prompt"
    /\ pc = "responded"
    /\ response.status = 200 ) =>
      /\ response.current_category_id \in RegisteredIds
      /\ \E c \in DefinedCategories :
           /\ c.id = response.current_category_id
           /\ c.label = response.original_category_label_for_mod
           /\ provider_calls[1].contents = Replace(c.template, request.data.task_description)

\* C26: every element of the list parse_bullet_list returns is non-empty
\* and has no whitespace at either end, whatever the text.
C26_ItemsTrimmedAndNonEmpty ==
  fn_call.fn = "parse_bullet_list" =>
    \A i \in 1..Len(fn_result) :
      /\ fn_result[i] # <<>>
      /\ Strip(fn_result[i]) = fn_result[i]

====
